---- MODULE Spec2Model ----
(***************************************************************************)
(* The lexical scanner of the C-subset compiler (src/src/main.rs, lexer). *)
(* One scan is a state machine over the file contents: the main loop       *)
(* dispatches on the next unconsumed character, and the digit run, the     *)
(* identifier run, the line comment and the block comment are inner loops. *)
(* One action is one iteration (or one exit) of a loop of the code.        *)
(*                                                                         *)
(* A character is a one-character string.  Three characters outside ASCII  *)
(* stand for the classes the Rust predicates char::is_numeric,             *)
(* char::is_alphabetic and char::is_alphanumeric accept beyond ASCII.      *)
(***************************************************************************)
EXTENDS Naturals, Sequences, FiniteSets

\* ------------------------------------------------------------------------
\* Characters

\* U+00E9, a letter (general category Ll): alphabetic, not numeric.
LatinSmallEAcute == "U+00E9"
\* U+00BE, vulgar fraction three quarters (category No): numeric, not alphabetic.
ThreeQuarters == "U+00BE"
\* U+2167, roman numeral eight (category Nl): numeric and alphabetic.
RomanNumeralEight == "U+2167"

AsciiDigit == {"0", "1", "2", "3", "4", "5", "6", "7", "8", "9"}

AsciiLower ==
    {"a", "b", "c", "d", "e", "f", "g", "h", "i", "j", "k", "l", "m",
     "n", "o", "p", "q", "r", "s", "t", "u", "v", "w", "x", "y", "z"}

AsciiUpper ==
    {"A", "B", "C", "D", "E", "F", "G", "H", "I", "J", "K", "L", "M",
     "N", "O", "P", "Q", "R", "S", "T", "U", "V", "W", "X", "Y", "Z"}

\* char::is_numeric: the general categories Nd, Nl and No.
is_numeric(c) == c \in AsciiDigit \cup {ThreeQuarters, RomanNumeralEight}

\* char::is_alphabetic: the Alphabetic property (letters and Nl).
is_alphabetic(c) ==
    c \in AsciiLower \cup AsciiUpper \cup {LatinSmallEAcute, RomanNumeralEight}

\* char::is_alphanumeric: is_alphabetic or is_numeric.
is_alphanumeric(c) == is_alphabetic(c) \/ is_numeric(c)

\* A whitespace arm that forgets the space.
Whitespace_NoSpace == {"\n", "\t"}

\* A scanner that also takes the carriage return for whitespace.
Whitespace_WithCarriageReturn == {" ", "\n", "\t", "\r"}

\* The arm ' ' | '\n' | '\t' of the main match.
Whitespace == {" ", "\n", "\t"}

\* Punctuation arms with the tokens of the two braces exchanged.
PunctuationToken_BracesSwapped ==
    [c \in {"(", ")", "{", "}", ";"} |->
        CASE c = "(" -> "OpenParenthesis"
          [] c = ")" -> "CloseParenthesis"
          [] c = "{" -> "CloseBrace"
          [] c = "}" -> "OpenBrace"
          [] c = ";" -> "Semicolon"]

\* The arms '(' ')' '{' '}' ';' of the main match, and the token of each.
PunctuationToken ==
    [c \in {"(", ")", "{", "}", ";"} |->
        CASE c = "(" -> "OpenParenthesis"
          [] c = ")" -> "CloseParenthesis"
          [] c = "{" -> "OpenBrace"
          [] c = "}" -> "CloseBrace"
          [] c = ";" -> "Semicolon"]

\* The arm '0'..='9' of the main match.
NumberStartChar == AsciiDigit

\* The arm 'a'..='z' | 'A'..='Z' | '_' of the main match.
IdentStartChar == AsciiLower \cup AsciiUpper \cup {"_"}

\* A check after the digit run that forgets the underscore.
FollowsNumberAsIdentifier_LettersOnly(next) == is_alphabetic(next)

\* next.is_alphabetic() || next == '_', the check after the digit run.
FollowsNumberAsIdentifier(next) == is_alphabetic(next) \/ next = "_"

\* A line comment that also ends at a carriage return.
LineCommentContinues_UntilCarriageReturn(c) == c \notin {"\n", "\r"}

\* c != '\n', the test of the line comment loop (the loop breaks on '\n').
LineCommentContinues(c) == c # "\n"

\* A test of the identifier loop that forgets the underscore.
IsIdentifierPart_NoUnderscore(d) == is_alphanumeric(d)

\* d.is_alphanumeric() || d == '_', the test of the identifier loop.
IsIdentifierPart(d) == is_alphanumeric(d) \/ d = "_"

\* ------------------------------------------------------------------------
\* Tokens (enum Token)

Tok(kind, text) == [kind |-> kind, text |-> text]

\* A keyword lookup on the first characters of the text instead of all of it.
ClassifyIdent_ByPrefix(text) ==
    CASE Len(text) >= 3 /\ SubSeq(text, 1, 3) = <<"i", "n", "t">> ->
             Tok("IntKeyword", <<>>)
      [] Len(text) >= 4 /\ SubSeq(text, 1, 4) = <<"v", "o", "i", "d">> ->
             Tok("VoidKeyword", <<>>)
      [] Len(text) >= 6 /\ SubSeq(text, 1, 6) = <<"r", "e", "t", "u", "r", "n">> ->
             Tok("ReturnKeyword", <<>>)
      [] OTHER -> Tok("Identifier", text)

\* The final match of the identifier branch: keyword lookup on the whole text.
ClassifyIdent(text) ==
    CASE text = <<"i", "n", "t">> -> Tok("IntKeyword", <<>>)
      [] text = <<"v", "o", "i", "d">> -> Tok("VoidKeyword", <<>>)
      [] text = <<"r", "e", "t", "u", "r", "n">> -> Tok("ReturnKeyword", <<>>)
      [] OTHER -> Tok("Identifier", text)

\* ------------------------------------------------------------------------
\* Inputs: every concatenation of at most MaxPieces pieces.

MaxPieces == 3

Pieces ==
    {<<"i", "n", "t">>, <<"v", "o", "i", "d">>, <<"r", "e", "t", "u", "r", "n">>,
     <<"x">>, <<"_">>, <<"1">>, <<" ">>, <<"\n">>,
     <<"(">>, <<";">>, <<"/">>, <<"*">>,
     <<"/", "/">>, <<"/", "*">>, <<"*", "/">>, <<"@">>, <<"\r">>,
     <<LatinSmallEAcute>>, <<ThreeQuarters>>, <<RomanNumeralEight>>}

RECURSIVE Flatten(_)
Flatten(ps) == IF ps = <<>> THEN <<>> ELSE Head(ps) \o Flatten(Tail(ps))

\* Inputs of the documented scenarios, longer than MaxPieces pieces.
Scenarios ==
    {\* int main(void){return 2;}
     <<"i", "n", "t", " ", "m", "a", "i", "n", "(", "v", "o", "i", "d",
         ")", "{", "r", "e", "t", "u", "r", "n", " ", "2", ";", "}">>,
     \* /* a * b */int
     <<"/", "*", " ", "a", " ", "*", " ", "b", " ", "*", "/", "i", "n",
         "t">>,
     \* int x; // ignore this\nreturn x;
     <<"i", "n", "t", " ", "x", ";", " ", "/", "/", " ", "i", "g", "n",
         "o", "r", "e", " ", "t", "h", "i", "s", "\n", "r", "e", "t",
         "u", "r", "n", " ", "x", ";">>,
     \* int integer int1 return_ xvoid void return
     <<"i", "n", "t", " ", "i", "n", "t", "e", "g", "e", "r", " ", "i",
         "n", "t", "1", " ", "r", "e", "t", "u", "r", "n", "_", " ",
         "x", "v", "o", "i", "d", " ", "v", "o", "i", "d", " ", "r",
         "e", "t", "u", "r", "n">>,
     \* 9x 123abc
     <<"9", "x", " ", "1", "2", "3", "a", "b", "c">>,
     \* int\tx;\r\n
     <<"i", "n", "t", "\t", "x", ";", "\r", "\n">>,
     \* __ _a a_ _
     <<"_", "_", " ", "_", "a", " ", "a", "_", " ", "_">>}

Inputs ==
    {Flatten(ps) : ps \in UNION {[1..k -> Pieces] : k \in 0..MaxPieces}}
        \cup Scenarios

\* ------------------------------------------------------------------------
\* State

VARIABLES
    contents,   \* the file contents, a sequence of characters
    pos,        \* the number of characters consumed from chars (the cursor)
    tokens,     \* the vector of tokens collected so far
    num,        \* the digit run being collected
    ident,      \* the identifier run being collected
    pc,         \* the loop the scan is in: main, num, ident, line, block, done
    result,     \* Running, Ok, Panic, or the error returned
    output,     \* the tokens printed on the standard output
    starts,     \* history: the cursor at each main-loop dispatch, in order
    spans,      \* history: the first and last input index of each token
    consumed,   \* history: for each consumed character, the rule that took it
    examined,   \* history: the highest input index inspected so far
    args,       \* the command line, the program name first
    mpc,        \* where main is: start, lexer_open, lexer, exited
    exit_code,  \* <<>> while the process runs, then <<status>>
    stdout,     \* the status lines main printed on the standard output
    stderr,     \* the lines printed on the error stream
    opened,     \* the paths File::open was called on
    created     \* the names of the files File::create made

mainVars == <<args, mpc, exit_code, stdout, stderr, opened, created>>

vars == <<contents, pos, tokens, num, ident, pc, result, output,
          starts, spans, consumed, examined,
          args, mpc, exit_code, stdout, stderr, opened, created>>

Running == [kind |-> "Running", arg |-> <<>>]
Ok == [kind |-> "Ok", arg |-> <<>>]
Err(kind, arg) == [kind |-> kind, arg |-> arg]

ErrorKinds ==
    {"NumberStartsIdentifier", "IdentStartsWithNumber", "StandaloneUnderscore",
     "InvalidIdentifier", "UnhandledSlash", "InvalidCharacter"}

\* eprintln!("DEBUG: Found identifier '{}'", ident)
Debug(text) == [kind |-> "Debug", arg |-> text]

\* The words of the command line, as sequences of characters.
ProgramName == <<"c", "o", "m", "p", "i", "l", "e", "r">>
LexOption == <<"-", "-", "l", "e", "x">>
ParseOption == <<"-", "-", "p", "a", "r", "s", "e">>
CodegenOption == <<"-", "-", "c", "o", "d", "e", "g", "e", "n">>
AssembleOption == <<"-", "s">>
Extension == <<".", "c">>
AssemblyExtension == <<".", "s">>

\* The lines main prints, by what they announce.
Line(kind, arg) == [kind |-> kind, arg |-> arg]

\* chars.peek()
HasNext == pos < Len(contents)
Peek == contents[pos + 1]

Max(a, b) == IF a >= b THEN a ELSE b

\* n copies of a label
Rep(label, n) == [i \in 1..n |-> label]

Init ==
    /\ contents \in Inputs
    /\ pos = 0
    /\ tokens = <<>>
    /\ num = <<>>
    /\ ident = <<>>
    /\ pc = "main"
    /\ result = Running
    /\ output = <<>>
    /\ starts = <<>>
    /\ spans = <<>>
    /\ consumed = <<>>
    /\ examined = 0
    /\ args = <<ProgramName, LexOption, <<"a">> \o Extension>>
    /\ mpc = "lexer"
    /\ exit_code = <<>>
    /\ stdout = <<Line("PerformingLexicalAnalysis", <<"a">> \o Extension)>>
    /\ stderr = <<>>
    /\ opened = {<<"a">> \o Extension}
    /\ created = {}

\* ------------------------------------------------------------------------
\* The main loop, one action per arm of the match

\* ' ' | '\n' | '\t' => chars.next()
SkipWhitespace ==
    /\ pc = "main" /\ HasNext /\ Peek \in Whitespace
    /\ pos' = pos + 1
    /\ starts' = Append(starts, pos)
    /\ consumed' = Append(consumed, "whitespace")
    /\ examined' = Max(examined, pos + 1)
    /\ UNCHANGED <<contents, tokens, num, ident, pc, result, output, spans>>
    /\ UNCHANGED mainVars

\* Punctuation arms that insert the token at the front of the vector.
Punctuation_Prepended ==
    /\ pc = "main" /\ HasNext /\ Peek \in DOMAIN PunctuationToken
    /\ tokens' = <<Tok(PunctuationToken[Peek], <<>>)>> \o tokens
    /\ spans' = <<<<pos + 1, pos + 1>>>> \o spans
    /\ pos' = pos + 1
    /\ starts' = Append(starts, pos)
    /\ consumed' = Append(consumed, "token")
    /\ examined' = Max(examined, pos + 1)
    /\ UNCHANGED <<contents, num, ident, pc, result, output>>
    /\ UNCHANGED mainVars

\* '(' ')' '{' '}' ';' => tokens.push(..); chars.next()
Punctuation ==
    /\ pc = "main" /\ HasNext /\ Peek \in DOMAIN PunctuationToken
    /\ tokens' = Append(tokens, Tok(PunctuationToken[Peek], <<>>))
    /\ spans' = Append(spans, <<pos + 1, pos + 1>>)
    /\ pos' = pos + 1
    /\ starts' = Append(starts, pos)
    /\ consumed' = Append(consumed, "token")
    /\ examined' = Max(examined, pos + 1)
    /\ UNCHANGED <<contents, num, ident, pc, result, output>>
    /\ UNCHANGED mainVars

\* '0'..='9' => let mut num = String::new(); enter the digit loop
NumberStart ==
    /\ pc = "main" /\ HasNext /\ Peek \in NumberStartChar
    /\ num' = <<>>
    /\ pc' = "num"
    /\ starts' = Append(starts, pos)
    /\ examined' = Max(examined, pos + 1)
    /\ UNCHANGED <<contents, pos, tokens, ident, result, output, spans, consumed>>
    /\ UNCHANGED mainVars

\* digit loop, d.is_numeric(): num.push(d); chars.next()
NumberDigit ==
    /\ pc = "num" /\ HasNext /\ is_numeric(Peek)
    /\ num' = Append(num, Peek)
    /\ pos' = pos + 1
    /\ consumed' = Append(consumed, "token")
    /\ examined' = Max(examined, pos + 1)
    /\ UNCHANGED <<contents, tokens, ident, pc, result, output, starts, spans>>
    /\ UNCHANGED mainVars

\* digit loop left (break, or end of input); the check of the next
\* character; tokens.push(Token::Constant(num))
NumberEnd ==
    /\ pc = "num" /\ ~(HasNext /\ is_numeric(Peek))
    /\ examined' = IF HasNext THEN Max(examined, pos + 1) ELSE examined
    /\ IF HasNext /\ FollowsNumberAsIdentifier(Peek)
       THEN /\ result' = Err("NumberStartsIdentifier", Append(num, Peek))
            /\ pc' = "done"
            /\ UNCHANGED <<tokens, spans>>
       ELSE /\ tokens' = Append(tokens, Tok("Constant", num))
            /\ spans' = Append(spans, <<starts[Len(starts)] + 1, pos>>)
            /\ pc' = "main"
            /\ UNCHANGED result
    /\ num' = <<>>
    /\ UNCHANGED <<contents, pos, ident, output, starts, consumed>>
    /\ UNCHANGED mainVars

\* 'a'..='z' | 'A'..='Z' | '_' => let mut ident = String::new(); enter the loop
IdentStart ==
    /\ pc = "main" /\ HasNext /\ Peek \in IdentStartChar
    /\ ident' = <<>>
    /\ pc' = "ident"
    /\ starts' = Append(starts, pos)
    /\ examined' = Max(examined, pos + 1)
    /\ UNCHANGED <<contents, pos, tokens, num, result, output, spans, consumed>>
    /\ UNCHANGED mainVars

\* identifier loop, d.is_alphanumeric() || d == '_': ident.push(d); chars.next()
IdentChar ==
    /\ pc = "ident" /\ HasNext /\ IsIdentifierPart(Peek)
    /\ ident' = Append(ident, Peek)
    /\ pos' = pos + 1
    /\ consumed' = Append(consumed, "token")
    /\ examined' = Max(examined, pos + 1)
    /\ UNCHANGED <<contents, tokens, num, pc, result, output, starts, spans>>
    /\ UNCHANGED mainVars

\* Checks that reject every text starting with an underscore.
IdentOutcome_LeadingUnderscore(text) ==
    IF text = <<>> THEN Err("Panic", <<>>)
    ELSE IF is_numeric(text[1]) THEN Err("IdentStartsWithNumber", text)
    ELSE IF text[1] = "_" THEN Err("StandaloneUnderscore", <<>>)
    ELSE IF \E i \in 1..Len(text) : ~IsIdentifierPart(text[i])
         THEN Err("InvalidIdentifier", text)
    ELSE Ok

\* The checks after the identifier loop, in the order of the code; the
\* unwrap of the first character panics on an empty text.
IdentOutcome(text) ==
    IF text = <<>> THEN Err("Panic", <<>>)
    ELSE IF is_numeric(text[1]) THEN Err("IdentStartsWithNumber", text)
    ELSE IF text = <<"_">> THEN Err("StandaloneUnderscore", <<>>)
    ELSE IF \E i \in 1..Len(text) : ~IsIdentifierPart(text[i])
         THEN Err("InvalidIdentifier", text)
    ELSE Ok

\* identifier loop left (break, or end of input); the three checks; the
\* keyword match and tokens.push
IdentEnd ==
    /\ pc = "ident" /\ ~(HasNext /\ IsIdentifierPart(Peek))
    /\ examined' = IF HasNext THEN Max(examined, pos + 1) ELSE examined
    /\ IF IdentOutcome(ident) = Ok
       THEN /\ tokens' = Append(tokens, ClassifyIdent(ident))
            /\ spans' = Append(spans, <<starts[Len(starts)] + 1, pos>>)
            /\ pc' = "main"
            /\ UNCHANGED result
       ELSE /\ result' = IdentOutcome(ident)
            /\ pc' = "done"
            /\ UNCHANGED <<tokens, spans>>
    /\ ident' = <<>>
    /\ stderr' = Append(stderr, Debug(ident))
    /\ UNCHANGED <<contents, pos, num, output, starts, consumed>>
    /\ UNCHANGED <<args, mpc, exit_code, stdout, opened, created>>

\* '/' => chars.next(); then the next character decides: '/' enters the line
\* comment loop, '*' is consumed and enters the block comment loop, another
\* character is the error, and no next character falls out of the arm.
Slash ==
    /\ pc = "main" /\ HasNext /\ Peek = "/"
    /\ starts' = Append(starts, pos)
    /\ IF pos + 1 < Len(contents)
       THEN /\ examined' = Max(examined, pos + 2)
            /\ CASE contents[pos + 2] = "/" ->
                      /\ pos' = pos + 1
                      /\ consumed' = Append(consumed, "linecomment")
                      /\ pc' = "line"
                      /\ UNCHANGED result
                 [] contents[pos + 2] = "*" ->
                      /\ pos' = pos + 2
                      /\ consumed' = consumed \o Rep("blockcomment", 2)
                      /\ pc' = "block"
                      /\ UNCHANGED result
                 [] OTHER ->
                      /\ pos' = pos + 1
                      /\ consumed' = Append(consumed, "slash")
                      /\ pc' = "done"
                      /\ result' = Err("UnhandledSlash", <<>>)
       ELSE /\ examined' = Max(examined, pos + 1)
            /\ pos' = pos + 1
            /\ consumed' = Append(consumed, "slash")
            /\ UNCHANGED <<pc, result>>
    /\ UNCHANGED <<contents, tokens, num, ident, output, spans>>
    /\ UNCHANGED mainVars

\* A line comment loop that forgets chars.next().
LineCommentChar_NoAdvance ==
    /\ pc = "line" /\ HasNext /\ Peek # "\n"
    /\ UNCHANGED vars

\* line comment loop, c != '\n': chars.next()
LineCommentChar ==
    /\ pc = "line" /\ HasNext /\ LineCommentContinues(Peek)
    /\ pos' = pos + 1
    /\ consumed' = Append(consumed, "linecomment")
    /\ examined' = Max(examined, pos + 1)
    /\ UNCHANGED <<contents, tokens, num, ident, pc, result, output, starts, spans>>
    /\ UNCHANGED mainVars

\* line comment loop left: break on '\n', or end of input
LineCommentEnd ==
    /\ pc = "line" /\ ~(HasNext /\ LineCommentContinues(Peek))
    /\ pc' = "main"
    /\ examined' = IF HasNext THEN Max(examined, pos + 1) ELSE examined
    /\ UNCHANGED <<contents, pos, tokens, num, ident, result, output,
                   starts, spans, consumed>>
    /\ UNCHANGED mainVars

\* A block comment loop that takes any '*' for the end of the comment.
BlockCommentChar_CloseOnStar ==
    /\ pc = "block" /\ HasNext
    /\ pos' = pos + 1
    /\ consumed' = Append(consumed, "blockcomment")
    /\ examined' = Max(examined, pos + 1)
    /\ pc' = IF Peek = "*" THEN "main" ELSE pc
    /\ UNCHANGED <<contents, tokens, num, ident, result, output, starts, spans>>
    /\ UNCHANGED mainVars

\* block comment loop: chars.next(); when it was '*' and the next character
\* is '/', that one is consumed too and the loop is left
BlockCommentChar ==
    /\ pc = "block" /\ HasNext
    /\ IF Peek = "*" /\ pos + 1 < Len(contents) /\ contents[pos + 2] = "/"
       THEN /\ pos' = pos + 2
            /\ consumed' = consumed \o Rep("blockcomment", 2)
            /\ examined' = Max(examined, pos + 2)
            /\ pc' = "main"
       ELSE /\ pos' = pos + 1
            /\ consumed' = Append(consumed, "blockcomment")
            /\ examined' = IF Peek = "*" /\ pos + 1 < Len(contents)
                           THEN Max(examined, pos + 2)
                           ELSE Max(examined, pos + 1)
            /\ UNCHANGED pc
    /\ UNCHANGED <<contents, tokens, num, ident, result, output, starts, spans>>
    /\ UNCHANGED mainVars

\* A scanner that reports the comment left open at the end of input.
BlockCommentEnd_Unterminated ==
    /\ pc = "block" /\ ~HasNext
    /\ pc' = "done"
    /\ result' = Err("UnterminatedComment", <<>>)
    /\ UNCHANGED <<contents, pos, tokens, num, ident, output,
                   starts, spans, consumed, examined>>
    /\ UNCHANGED mainVars

\* block comment loop left at the end of input, no closing marker seen
BlockCommentEnd ==
    /\ pc = "block" /\ ~HasNext
    /\ pc' = "main"
    /\ UNCHANGED <<contents, pos, tokens, num, ident, result, output,
                   starts, spans, consumed, examined>>
    /\ UNCHANGED mainVars

\* An arm that skips the invalid character and goes on scanning.
InvalidCharacter_Skipped ==
    /\ pc = "main" /\ HasNext
    /\ Peek \notin Whitespace \cup DOMAIN PunctuationToken \cup NumberStartChar
                   \cup IdentStartChar \cup {"/"}
    /\ pos' = pos + 1
    /\ starts' = Append(starts, pos)
    /\ consumed' = Append(consumed, "invalid")
    /\ examined' = Max(examined, pos + 1)
    /\ UNCHANGED <<contents, tokens, num, ident, pc, result, output, spans>>
    /\ UNCHANGED mainVars

\* _ => return Err("Invalid character")
InvalidCharacter ==
    /\ pc = "main" /\ HasNext
    /\ Peek \notin Whitespace \cup DOMAIN PunctuationToken \cup NumberStartChar
                   \cup IdentStartChar \cup {"/"}
    /\ result' = Err("InvalidCharacter", <<Peek>>)
    /\ pc' = "done"
    /\ starts' = Append(starts, pos)
    /\ examined' = Max(examined, pos + 1)
    /\ UNCHANGED <<contents, pos, tokens, num, ident, output, spans, consumed>>
    /\ UNCHANGED mainVars

\* main loop left at the end of input: print the tokens, Ok(())
Finish ==
    /\ pc = "main" /\ ~HasNext
    /\ output' = tokens
    /\ result' = Ok
    /\ pc' = "done"
    /\ UNCHANGED <<contents, pos, tokens, num, ident, starts, spans,
                   consumed, examined>>
    /\ UNCHANGED mainVars

Next ==
    \/ SkipWhitespace
    \/ Punctuation
    \/ NumberStart
    \/ NumberDigit
    \/ NumberEnd
    \/ IdentStart
    \/ IdentChar
    \/ IdentEnd
    \/ Slash
    \/ LineCommentChar
    \/ LineCommentEnd
    \/ BlockCommentChar
    \/ BlockCommentEnd
    \/ InvalidCharacter
    \/ Finish

Spec == Init /\ [][Next]_vars

\* The scan is sequential code: a step that can be taken is taken.
FairSpec == Init /\ [][Next]_vars /\ WF_vars(Next)

TypeOK ==
    /\ pos \in 0..Len(contents)
    /\ pc \in {"idle", "main", "num", "ident", "line", "block", "done"}
    /\ Len(consumed) = pos
    /\ Len(spans) = Len(tokens)
    /\ examined \in 0..Len(contents)

\* ------------------------------------------------------------------------
\* main: the command line, the option dispatch and the process exit

MaxArgs == 2

Options ==
    {LexOption, ParseOption, CodegenOption, AssembleOption,
     <<"-", "x">>, <<"-">>, <<"-", "a">> \o Extension}

Paths ==
    {<<"a">> \o Extension,
     <<"a">> \o Extension \o Extension,
     <<"a">> \o Extension \o AssemblyExtension,
     Extension,
     Extension \o Extension,
     <<"a">> \o AssemblyExtension,
     <<"a">>,
     <<"a", "c">>,
     <<>>}

\* The command lines: the program name and up to MaxArgs words.
ArgLists ==
    {<<ProgramName>> \o ws :
        ws \in UNION {[1..k -> Options \cup Paths] : k \in 0..MaxArgs}}

\* What the file named on the command line may hold when it is read.
FileContents == Scenarios \cup {<<>>, <<"/">>, <<"/", "*", "x">>}

lexerVars == <<contents, pos, tokens, num, ident, pc, result, output,
               starts, spans, consumed, examined>>

\* args[i], counted from zero as the code counts
Arg(i) == args[i + 1]

starts_with(s, c) == Len(s) >= 1 /\ s[1] = c

ends_with(s, suffix) ==
    /\ Len(s) >= Len(suffix)
    /\ SubSeq(s, Len(s) - Len(suffix) + 1, Len(s)) = suffix

\* str::trim_end_matches: the suffix is removed as often as it matches.
RECURSIVE trim_end_matches(_, _)
trim_end_matches(s, pat) ==
    IF ends_with(s, pat)
    THEN trim_end_matches(SubSeq(s, 1, Len(s) - Len(pat)), pat)
    ELSE s

\* if args[1].starts_with('-') { option = Some(&args[1]); path_index = 2 }
HasOption == starts_with(Arg(1), "-")
option == Arg(1)
path_index == IF HasOption THEN 2 ELSE 1
path == Arg(path_index)

\* The checks every run passes before the option is looked at.
PathGiven ==
    /\ Len(args) >= 2
    /\ path_index < Len(args)
    /\ ends_with(path, Extension)

\* process::exit(status)
Exit(status) ==
    /\ exit_code' = <<status>>
    /\ mpc' = "exited"

\* if args.len() < 2: the usage on the error stream, exit(1)
MainUsage ==
    /\ mpc = "start" /\ Len(args) < 2
    /\ stderr' = Append(stderr, Line("Usage", Arg(0)))
    /\ Exit(1)
    /\ UNCHANGED <<args, stdout, opened, created>>
    /\ UNCHANGED lexerVars

\* if path_index >= args.len(): "Missing path", exit(1)
MainMissingPath ==
    /\ mpc = "start" /\ Len(args) >= 2
    /\ path_index >= Len(args)
    /\ stderr' = Append(stderr, Line("MissingPath", <<>>))
    /\ Exit(1)
    /\ UNCHANGED <<args, stdout, opened, created>>
    /\ UNCHANGED lexerVars

\* if !path.ends_with(".c"): "must have a .c extension", exit(1)
MainBadExtension ==
    /\ mpc = "start" /\ Len(args) >= 2
    /\ path_index < Len(args)
    /\ ~ends_with(path, Extension)
    /\ stderr' = Append(stderr, Line("BadExtension", <<>>))
    /\ Exit(1)
    /\ UNCHANGED <<args, stdout, opened, created>>
    /\ UNCHANGED lexerVars

\* "--lex" => println!("Performing lexical analysis on {}", path); lexer(path)
MainLex ==
    /\ mpc = "start" /\ PathGiven
    /\ HasOption /\ option = LexOption
    /\ stdout' = Append(stdout, Line("PerformingLexicalAnalysis", path))
    /\ mpc' = "lexer_open"
    /\ UNCHANGED <<args, exit_code, stderr, opened, created>>
    /\ UNCHANGED lexerVars

\* lexer: File::open and read_to_string; either may fail, and a file that
\* is read hands its contents to the scan.
LexerOpen ==
    /\ mpc = "lexer_open"
    /\ opened' = opened \cup {path}
    /\ mpc' = "lexer"
    /\ \/ /\ result' = Err("CouldNotOpenFile", path)
          /\ UNCHANGED <<contents, pc>>
       \/ /\ result' = Err("CouldNotReadFile", path)
          /\ UNCHANGED <<contents, pc>>
       \/ /\ \E c \in FileContents : contents' = c
          /\ pc' = "main"
          /\ UNCHANGED result
    /\ UNCHANGED <<pos, tokens, num, ident, output, starts, spans, consumed,
                   examined>>
    /\ UNCHANGED <<args, exit_code, stdout, stderr, created>>

\* A caller that drops the error of the lexer.
LexerReturn_AlwaysSucceeds ==
    /\ mpc = "lexer" /\ result # Running
    /\ Exit(0)
    /\ UNCHANGED <<args, stdout, stderr, opened, created>>
    /\ UNCHANGED lexerVars

\* if let Err(e) = lexer(path) { eprintln!("{}", e); exit(1) } exit(0)
LexerReturn ==
    /\ mpc = "lexer" /\ result # Running
    /\ IF result = Ok
       THEN /\ Exit(0)
            /\ UNCHANGED stderr
       ELSE /\ stderr' = Append(stderr, result)
            /\ Exit(1)
    /\ UNCHANGED <<args, stdout, opened, created>>
    /\ UNCHANGED lexerVars

\* "--parse" => println!("Performing parsing on {}", path); exit(0)
MainParse ==
    /\ mpc = "start" /\ PathGiven
    /\ HasOption /\ option = ParseOption
    /\ stdout' = Append(stdout, Line("PerformingParsing", path))
    /\ Exit(0)
    /\ UNCHANGED <<args, stderr, opened, created>>
    /\ UNCHANGED lexerVars

\* "--codegen" => println!("Performing code generation on {}", path); exit(0)
MainCodegen ==
    /\ mpc = "start" /\ PathGiven
    /\ HasOption /\ option = CodegenOption
    /\ stdout' = Append(stdout, Line("PerformingCodeGeneration", path))
    /\ Exit(0)
    /\ UNCHANGED <<args, stderr, opened, created>>
    /\ UNCHANGED lexerVars

\* "-s" => new_name = path.trim_end_matches(".c"); asm_file = new_name + ".s";
\* File::create(&asm_file) succeeds (status line, exit(0)) or fails
\* (diagnostic, exit(1)).
MainAssemble ==
    /\ mpc = "start" /\ PathGiven
    /\ HasOption /\ option = AssembleOption
    /\ LET new_name == trim_end_matches(path, Extension)
           asm_file == new_name \o AssemblyExtension
       IN  \/ /\ created' = created \cup {asm_file}
              /\ stdout' = Append(stdout, Line("GeneratedAssemblyFile", asm_file))
              /\ Exit(0)
              /\ UNCHANGED stderr
           \/ /\ stderr' = Append(stderr, Line("FailedToCreate", asm_file))
              /\ Exit(1)
              /\ UNCHANGED <<created, stdout>>
    /\ UNCHANGED <<args, opened>>
    /\ UNCHANGED lexerVars

KnownOptions == {LexOption, ParseOption, CodegenOption, AssembleOption}

\* _ => eprintln!("Error: Unknown option '{}'", opt); exit(1)
MainUnknownOption ==
    /\ mpc = "start" /\ PathGiven
    /\ HasOption /\ option \notin KnownOptions
    /\ stderr' = Append(stderr, Line("UnknownOption", option))
    /\ Exit(1)
    /\ UNCHANGED <<args, stdout, opened, created>>
    /\ UNCHANGED lexerVars

\* A dispatch that scans the file when no option is given.
MainNoOption_DefaultsToLex ==
    /\ mpc = "start" /\ PathGiven
    /\ ~HasOption
    /\ mpc' = "lexer_open"
    /\ UNCHANGED <<args, exit_code, stdout, stderr, opened, created>>
    /\ UNCHANGED lexerVars

\* None => {}: main returns, the process ends with status 0
MainNoOption ==
    /\ mpc = "start" /\ PathGiven
    /\ ~HasOption
    /\ Exit(0)
    /\ UNCHANGED <<args, stdout, stderr, opened, created>>
    /\ UNCHANGED lexerVars

\* The process as started: nothing read, nothing printed.
InitMain ==
    /\ args \in ArgLists
    /\ mpc = "start"
    /\ exit_code = <<>>
    /\ stdout = <<>>
    /\ stderr = <<>>
    /\ opened = {}
    /\ created = {}
    /\ contents = <<>>
    /\ pos = 0
    /\ tokens = <<>>
    /\ num = <<>>
    /\ ident = <<>>
    /\ pc = "idle"
    /\ result = Running
    /\ output = <<>>
    /\ starts = <<>>
    /\ spans = <<>>
    /\ consumed = <<>>
    /\ examined = 0

MainNext ==
    \/ MainUsage
    \/ MainMissingPath
    \/ MainBadExtension
    \/ MainLex
    \/ LexerOpen
    \/ LexerReturn
    \/ MainParse
    \/ MainCodegen
    \/ MainAssemble
    \/ MainUnknownOption
    \/ MainNoOption
    \/ Next

MainSpec == InitMain /\ [][MainNext]_vars

\* ------------------------------------------------------------------------
\* The scan as a function of the input: the result and the printed tokens.
\* The cursor p is the number of characters consumed from s.

\* The cursor after the digit loop entered at cursor p.
RECURSIVE NumberRun(_, _)
NumberRun(s, p) ==
    IF p < Len(s) /\ is_numeric(s[p + 1]) THEN NumberRun(s, p + 1) ELSE p

\* The cursor after the identifier loop entered at cursor p.
RECURSIVE IdentRun(_, _)
IdentRun(s, p) ==
    IF p < Len(s) /\ IsIdentifierPart(s[p + 1]) THEN IdentRun(s, p + 1) ELSE p

\* The cursor after the line comment loop entered at cursor p.
RECURSIVE LineCommentRun(_, _)
LineCommentRun(s, p) ==
    IF p < Len(s) /\ LineCommentContinues(s[p + 1])
    THEN LineCommentRun(s, p + 1) ELSE p

\* The cursor after the block comment loop entered at cursor p.
RECURSIVE BlockCommentRun(_, _)
BlockCommentRun(s, p) ==
    IF p >= Len(s) THEN p
    ELSE IF s[p + 1] = "*" /\ p + 1 < Len(s) /\ s[p + 2] = "/" THEN p + 2
    ELSE BlockCommentRun(s, p + 1)

Failed(err) == [result |-> err, output |-> <<>>]

\* The main loop from cursor p with the tokens toks collected.
RECURSIVE ScanFrom(_, _, _)
ScanFrom(s, p, toks) ==
    IF p >= Len(s) THEN [result |-> Ok, output |-> toks]
    ELSE
    LET c == s[p + 1] IN
    CASE c \in Whitespace -> ScanFrom(s, p + 1, toks)
      [] c \in DOMAIN PunctuationToken ->
           ScanFrom(s, p + 1, Append(toks, Tok(PunctuationToken[c], <<>>)))
      [] c \in NumberStartChar ->
           LET e == NumberRun(s, p)
               text == SubSeq(s, p + 1, e)
           IN  IF e < Len(s) /\ FollowsNumberAsIdentifier(s[e + 1])
               THEN Failed(Err("NumberStartsIdentifier", Append(text, s[e + 1])))
               ELSE ScanFrom(s, e, Append(toks, Tok("Constant", text)))
      [] c \in IdentStartChar ->
           LET e == IdentRun(s, p)
               text == SubSeq(s, p + 1, e)
           IN  IF IdentOutcome(text) = Ok
               THEN ScanFrom(s, e, Append(toks, ClassifyIdent(text)))
               ELSE Failed(IdentOutcome(text))
      [] c = "/" ->
           IF p + 1 < Len(s)
           THEN CASE s[p + 2] = "/" -> ScanFrom(s, LineCommentRun(s, p + 1), toks)
                  [] s[p + 2] = "*" -> ScanFrom(s, BlockCommentRun(s, p + 2), toks)
                  [] OTHER -> Failed(Err("UnhandledSlash", <<>>))
           ELSE ScanFrom(s, p + 1, toks)
      [] OTHER -> Failed(Err("InvalidCharacter", <<c>>))

Scan(s) == ScanFrom(s, 0, <<>>)

\* ------------------------------------------------------------------------
\* Vocabulary of the properties

Last(seq) == seq[Len(seq)]

\* The letters: the ASCII letters and the letters beyond ASCII.
Letter == AsciiLower \cup AsciiUpper \cup {LatinSmallEAcute}

\* [A-Za-z0-9_]
AsciiWord == AsciiLower \cup AsciiUpper \cup AsciiDigit \cup {"_"}

ReservedWords ==
    {<<"i", "n", "t">>, <<"v", "o", "i", "d">>, <<"r", "e", "t", "u", "r", "n">>}

\* The last index of the maximal run of characters of S that starts at index
\* i of the input (i - 1 when the character at i is not in S).
RunEnd(S, i) ==
    CHOOSE j \in (i - 1)..Len(contents) :
        /\ \A m \in i..j : contents[m] \in S
        /\ j = Len(contents) \/ contents[j + 1] \notin S

\* The characters the identifier loop consumes.
IdentifierPart == {c \in AsciiWord \cup {LatinSmallEAcute, ThreeQuarters,
                                          RomanNumeralEight} : IsIdentifierPart(c)}

\* The indices of the tokens whose span starts at input index i.
TokensFrom(i) == {k \in 1..Len(spans) : spans[k][1] = i}

\* The indices of the tokens whose span covers input index i.
TokensOver(i) == {k \in 1..Len(spans) : spans[k][1] <= i /\ i <= spans[k][2]}

IsError(r) == r.kind \in ErrorKinds

\* ------------------------------------------------------------------------
\* C1: whenever the scanner meets, at a token-start position, a '/' that is
\* not immediately followed by '/' or '*' (the '/' that ends the input
\* included), the scan fails with the "Unhandled token '/'" error.
C1_BareSlashFails ==
    \A k \in 1..Len(starts) :
        LET p == starts[k] IN
        (/\ contents[p + 1] = "/"
         /\ ~(p + 2 <= Len(contents) /\ contents[p + 2] \in {"/", "*"}))
        => /\ result = Err("UnhandledSlash", <<>>)
           /\ pc = "done"

\* ------------------------------------------------------------------------
\* C2: when the scan succeeds, every input character lies inside the span of
\* exactly one token, or is a whitespace character skipped by the whitespace
\* rule, or belongs to a line or block comment; no other character is
\* skipped.
C2_EveryCharacterAccounted ==
    result = Ok =>
        \A i \in 1..Len(contents) :
            \/ /\ consumed[i] = "token"
               /\ Cardinality(TokensOver(i)) = 1
            \/ /\ consumed[i] = "whitespace"
               /\ contents[i] \in {" ", "\t", "\n"}
               /\ TokensOver(i) = {}
            \/ /\ consumed[i] \in {"linecomment", "blockcomment"}
               /\ TokensOver(i) = {}

\* ------------------------------------------------------------------------
\* C3: when a maximal run of digits 0-9 that starts at a token-start
\* position is immediately followed by a letter or an underscore, the scan
\* fails with "Identifiers cannot start with a number" (naming the run and
\* the character), no Constant is made of the run and no token is output.
C3_DigitRunThenLetterFails ==
    \A k \in 1..Len(starts) :
        LET p == starts[k]
            e == RunEnd(AsciiDigit, p + 1)
        IN  (/\ contents[p + 1] \in AsciiDigit
             /\ e < Len(contents)
             /\ contents[e + 1] \in Letter \cup {"_"})
            => /\ k = Len(starts)
               /\ TokensFrom(p + 1) = {}
               /\ output = <<>>
               /\ \/ pc = "num" /\ result = Running /\ pos <= e
                  \/ /\ pc = "done"
                     /\ result = Err("NumberStartsIdentifier",
                                     SubSeq(contents, p + 1, e + 1))

\* A scan stopped by a digit run followed by a letter, after tokens had been
\* collected.
C3_Witness ==
    /\ pc = "done"
    /\ result.kind = "NumberStartsIdentifier"
    /\ Len(result.arg) >= 2
    /\ tokens # <<>>
    /\ output = <<>>

\* ------------------------------------------------------------------------
\* The construct at the token-start position p (p characters precede it)
\* is one the scanner fails on, and the error it fails with.
Offence(p) ==
    LET c == contents[p + 1]
        n == RunEnd({d \in AsciiDigit \cup {ThreeQuarters, RomanNumeralEight} :
                         is_numeric(d)}, p + 1)
        i == RunEnd(IdentifierPart, p + 1)
    IN  CASE c \in AsciiDigit ->
                 IF n < Len(contents) /\ (is_alphabetic(contents[n + 1])
                                          \/ contents[n + 1] = "_")
                 THEN "NumberStartsIdentifier" ELSE "None"
          [] c \in IdentStartChar ->
                 IF i = p + 1 /\ c = "_" THEN "StandaloneUnderscore" ELSE "None"
          [] c = "/" ->
                 IF p + 2 <= Len(contents) /\ contents[p + 2] \notin {"/", "*"}
                 THEN "UnhandledSlash" ELSE "None"
          [] c \in {" ", "\t", "\n", "(", ")", "{", "}", ";"} -> "None"
          [] OTHER -> "InvalidCharacter"

C5_IdentifierNames ==
    \A k \in 1..Len(tokens) :
        tokens[k].kind = "Identifier" =>
            LET name == tokens[k].text IN
            /\ name # <<>>
            /\ \A i \in 1..Len(name) : name[i] \in AsciiWord
            /\ name[1] \notin AsciiDigit
            /\ name # <<"_">>
            /\ name \notin ReservedWords

\* ------------------------------------------------------------------------
\* C6: every Constant token carries a non-empty string of the digits 0-9
\* only, and that string is the maximal run of digits 0-9 that starts at the
\* token's first character.
C6_ConstantDigits ==
    \A k \in 1..Len(tokens) :
        tokens[k].kind = "Constant" =>
            LET digits == tokens[k].text IN
            /\ digits # <<>>
            /\ \A i \in 1..Len(digits) : digits[i] \in AsciiDigit
            /\ digits = SubSeq(contents, spans[k][1], spans[k][2])
            /\ spans[k][2] = RunEnd(AsciiDigit, spans[k][1])

\* ------------------------------------------------------------------------
\* C7: the keyword lookup happens on the maximal identifier run: a token of
\* the identifier branch spans a maximal run of identifier characters that
\* starts at a token-start position; it is IntKeyword, VoidKeyword or
\* ReturnKeyword exactly when the whole run is int, void or return, and
\* otherwise it is an Identifier carrying the whole run; a run the scanner
\* accepted yields exactly one token.
C7_KeywordAfterMaximalMunch ==
    /\ \A k \in 1..Len(tokens) :
          tokens[k].kind \in {"Identifier", "IntKeyword", "VoidKeyword",
                              "ReturnKeyword"} =>
              LET f == spans[k][1]
                  t == spans[k][2]
                  run == SubSeq(contents, f, t)
              IN  /\ \E j \in 1..Len(starts) : starts[j] = f - 1
                  /\ contents[f] \in IdentStartChar
                  /\ t = RunEnd(IdentifierPart, f)
                  /\ tokens[k].kind = "IntKeyword" <=> run = <<"i", "n", "t">>
                  /\ tokens[k].kind = "VoidKeyword" <=> run = <<"v", "o", "i", "d">>
                  /\ tokens[k].kind = "ReturnKeyword"
                         <=> run = <<"r", "e", "t", "u", "r", "n">>
                  /\ tokens[k].kind = "Identifier" => tokens[k].text = run
    /\ \A j \in 1..Len(starts) :
          (/\ contents[starts[j] + 1] \in IdentStartChar
           /\ (j < Len(starts) \/ pc \in {"main", "done"})
           /\ (j = Len(starts) => ~IsError(result)))
          => Cardinality(TokensFrom(starts[j] + 1)) = 1

\* The finished scan of "int integer int1 return_ xvoid void return".
C7_Witness ==
    /\ result = Ok
    /\ output =
         <<Tok("IntKeyword", <<>>),
           Tok("Identifier", <<"i", "n", "t", "e", "g", "e", "r">>),
           Tok("Identifier", <<"i", "n", "t", "1">>),
           Tok("Identifier", <<"r", "e", "t", "u", "r", "n", "_">>),
           Tok("Identifier", <<"x", "v", "o", "i", "d">>),
           Tok("VoidKeyword", <<>>),
           Tok("ReturnKeyword", <<>>)>>

\* ------------------------------------------------------------------------
\* C8: when the identifier run consumed at a token-start position is exactly
\* the single character '_', the scan fails with "Standalone underscore";
\* and that error is given for no other run: a longer run that starts with
\* or contains underscores is not rejected by this rule.
C8_StandaloneUnderscore ==
    /\ \A k \in 1..Len(starts) :
          LET p == starts[k] IN
          (/\ contents[p + 1] = "_"
           /\ RunEnd(IdentifierPart, p + 1) = p + 1)
          => /\ k = Len(starts)
             /\ TokensFrom(p + 1) = {}
             /\ \/ pc = "ident" /\ result = Running
                \/ pc = "done" /\ result = Err("StandaloneUnderscore", <<>>)
    /\ result.kind = "StandaloneUnderscore" =>
          /\ contents[Last(starts) + 1] = "_"
          /\ RunEnd(IdentifierPart, Last(starts) + 1) = Last(starts) + 1
    /\ \A k \in 1..Len(tokens) :
          tokens[k].kind = "Identifier" => tokens[k].text # <<"_">>

\* A scan stopped by a lone underscore that has input left behind it, after
\* a token had been collected.
C8_Witness ==
    /\ result = Err("StandaloneUnderscore", <<>>)
    /\ tokens # <<>>
    /\ pos < Len(contents)

\* ------------------------------------------------------------------------
\* C9: when the character at a token-start position is none of space, tab,
\* newline, '(' ')' '{' '}' ';', a digit 0-9, a letter A-Z or a-z, '_' or
\* '/', the scan fails with "Invalid character" naming that character; the
\* character is neither consumed nor turned into a token.
C9_InvalidCharacterFails ==
    \A k \in 1..Len(starts) :
        LET p == starts[k]
            c == contents[p + 1]
        IN  c \notin {" ", "\t", "\n", "(", ")", "{", "}", ";", "_", "/"}
                     \cup AsciiDigit \cup AsciiLower \cup AsciiUpper
            => /\ k = Len(starts)
               /\ result = Err("InvalidCharacter", <<c>>)
               /\ pc = "done"
               /\ pos = p
               /\ TokensOver(p + 1) = {}
               /\ output = <<>>

\* A scan stopped by a carriage return after a token had been collected.
C9_Witness ==
    /\ result = Err("InvalidCharacter", <<"\r">>)
    /\ tokens # <<>>
    /\ output = <<>>

\* ------------------------------------------------------------------------
InnerLoops == {"num", "ident", "line", "block"}

\* An iteration of an inner loop starts: the loop test found a character.
InnerIteration == pc \in InnerLoops /\ HasNext

\* A measure of the work left: the characters left, and within one cursor
\* position the place in the code.
Variant ==
    3 * (Len(contents) - pos)
      + CASE pc = "done" -> 0
          [] pc = "main" -> 2
          [] pc = "num" /\ num = <<>> -> 1
          [] pc = "ident" /\ ident = <<>> -> 1
          [] OTHER -> 3

\* C10 as stated: every iteration of the main loop and of each inner loop
\* (digit run, identifier run, line comment, block comment) consumes at
\* least one character or ends the scan with an error.
C10_EveryIterationConsumes ==
    [][/\ InnerIteration => (pos' > pos \/ IsError(result'))
       /\ (pc' = "main" /\ pc # "main") => pos' > Last(starts')]_vars

\* C10 amended: the scan of every finite input terminates.  Every iteration
\* of the main loop consumes at least one character or ends the scan with an
\* error; an iteration of an inner loop consumes at least one character, or
\* ends the scan with an error, or leaves its loop by break without
\* consuming; the cursor never moves back, and the work left decreases with
\* every step until the scan is done.
C10_Terminates ==
    /\ [][/\ pos' >= pos
          /\ InnerIteration => \/ pos' > pos
                               \/ IsError(result')
                               \/ pc' = "main" /\ pc \in {"num", "ident", "line"}
          /\ pc' = "main" => pos' > Last(starts')
          /\ Variant' < Variant]_vars
    /\ <>(pc = "done")

\* A finished scan in which the identifier loop and the line comment loop
\* were each left by break, on a character that stayed unconsumed.
C10_Witness ==
    /\ pc = "done"
    /\ result = Ok
    /\ \E i, k \in 1..(Len(contents) - 1) :
          /\ consumed[i] = "linecomment" /\ contents[i + 1] = "\n"
          /\ consumed[k] = "token" /\ contents[k] \in AsciiLower
          /\ ~IsIdentifierPart(contents[k + 1])

\* ------------------------------------------------------------------------
\* The source text of a token whose span is the input from f to t.
SpanMatches(tok, f, t) ==
    LET text == SubSeq(contents, f, t) IN
    CASE tok.kind \in {"Identifier", "Constant"} -> tok.text = text
      [] tok.kind = "IntKeyword" -> text = <<"i", "n", "t">>
      [] tok.kind = "VoidKeyword" -> text = <<"v", "o", "i", "d">>
      [] tok.kind = "ReturnKeyword" -> text = <<"r", "e", "t", "u", "r", "n">>
      [] tok.kind = "OpenParenthesis" -> text = <<"(">>
      [] tok.kind = "CloseParenthesis" -> text = <<")">>
      [] tok.kind = "OpenBrace" -> text = <<"{">>
      [] tok.kind = "CloseBrace" -> text = <<"}">>
      [] tok.kind = "Semicolon" -> text = <<";">>
      [] OTHER -> FALSE

\* C11: in every step of a scan the cursor does not move back, no character
\* beyond the next unconsumed one has been inspected, and the token sequence
\* changes only by one token appended at its end; the tokens are in source
\* order, and each is the text of a contiguous, non-empty span of the input
\* already consumed that overlaps no other token's span.
C11_ForwardOnly ==
    /\ [][/\ pos' >= pos
          /\ \/ tokens' = tokens
             \/ /\ Len(tokens') = Len(tokens) + 1
                /\ SubSeq(tokens', 1, Len(tokens)) = tokens
                /\ SubSeq(spans', 1, Len(spans)) = spans]_vars
    /\ [](/\ examined <= pos + 1
          /\ examined <= Len(contents)
          /\ \A k \in 1..Len(tokens) :
                /\ 1 <= spans[k][1]
                /\ spans[k][1] <= spans[k][2]
                /\ spans[k][2] <= pos
                /\ SpanMatches(tokens[k], spans[k][1], spans[k][2])
                /\ k > 1 => spans[k - 1][2] < spans[k][1])

\* A finished scan of ten tokens or more, with whitespace between some.
C11_Witness ==
    /\ result = Ok
    /\ Len(output) >= 10
    /\ \E i \in 1..Len(contents) : consumed[i] = "whitespace"

\* ------------------------------------------------------------------------
\* A block comment opens at the token-start position p.
OpensBlockComment(p) ==
    /\ p + 2 <= Len(contents)
    /\ contents[p + 1] = "/"
    /\ contents[p + 2] = "*"

\* The indices, after the two opening characters of the comment opened at
\* p, of a '*' immediately followed by '/'.
Closers(p) ==
    {c \in (p + 3)..(Len(contents) - 1) :
        contents[c] = "*" /\ contents[c + 1] = "/"}

Least(S) == CHOOSE m \in S : \A n \in S : m <= n

BlockScenario ==
    <<"/", "*", " ", "a", " ", "*", " ", "b", " ", "*", "/", "i", "n", "t">>

\* C13: a block comment opened by "/*" at a token-start position produces no
\* token and ends exactly at the first '*' immediately followed by '/' after
\* the two opening characters; scanning resumes with the character after
\* that '/'; with no such pair (as in "/*/") the comment runs to the end of
\* the input.  The input "/* a * b */int" yields exactly [IntKeyword].
C13_BlockCommentEnds ==
    /\ \A k \in 1..Len(starts) :
          LET p == starts[k] IN
          (OpensBlockComment(p) /\ Closers(p) # {}) =>
              LET c == Least(Closers(p)) IN
              /\ \A i \in (p + 1)..(c + 1) :
                    i <= pos => consumed[i] = "blockcomment" /\ TokensOver(i) = {}
              /\ k < Len(starts) => starts[k + 1] = c + 1
              /\ k = Len(starts) =>
                    \/ pc = "block" /\ p + 2 <= pos /\ pos <= c - 1
                    \/ pc \in {"main", "done"} /\ pos = c + 1
    /\ \A k \in 1..Len(starts) :
          (OpensBlockComment(starts[k]) /\ Closers(starts[k]) = {}) =>
              /\ k = Len(starts)
              /\ \A i \in (starts[k] + 1)..pos : consumed[i] = "blockcomment"
              /\ pc \in {"main", "done"} => pos = Len(contents)
    /\ (contents = BlockScenario /\ pc = "done") =>
          result = Ok /\ output = <<Tok("IntKeyword", <<>>)>>

\* The finished scan of "/* a * b */int".
C13_Witness ==
    /\ contents = BlockScenario
    /\ pc = "done"
    /\ output = <<Tok("IntKeyword", <<>>)>>

\* ------------------------------------------------------------------------
MainScenario ==
    <<"i", "n", "t", " ", "m", "a", "i", "n", "(", "v", "o", "i", "d",
      ")", "{", "r", "e", "t", "u", "r", "n", " ", "2", ";", "}">>

\* C15: each of '(' ')' '{' '}' ';' at a token-start position yields exactly
\* one token of its own kind, spanning that character; it ends an identifier
\* or digit run before it with no whitespace between; whitespace yields no
\* token; and "int main(void){return 2;}" yields the ten tokens listed.
C15_Punctuation ==
    /\ \A k \in 1..Len(starts) :
          LET p == starts[k]
              c == contents[p + 1]
              kind == CASE c = "(" -> "OpenParenthesis"
                        [] c = ")" -> "CloseParenthesis"
                        [] c = "{" -> "OpenBrace"
                        [] c = "}" -> "CloseBrace"
                        [] c = ";" -> "Semicolon"
                        [] OTHER -> "None"
          IN  /\ kind # "None" =>
                    /\ Cardinality(TokensOver(p + 1)) = 1
                    /\ \A j \in TokensOver(p + 1) :
                          /\ tokens[j] = Tok(kind, <<>>)
                          /\ spans[j] = <<p + 1, p + 1>>
                    /\ (p >= 1 /\ consumed[p] = "token") =>
                          \E j \in 1..Len(spans) : spans[j][2] = p
              /\ c \in {" ", "\t", "\n"} =>
                    /\ consumed[p + 1] = "whitespace"
                    /\ TokensOver(p + 1) = {}
    /\ (contents = MainScenario /\ pc = "done") =>
          /\ result = Ok
          /\ output = <<Tok("IntKeyword", <<>>),
                        Tok("Identifier", <<"m", "a", "i", "n">>),
                        Tok("OpenParenthesis", <<>>),
                        Tok("VoidKeyword", <<>>),
                        Tok("CloseParenthesis", <<>>),
                        Tok("OpenBrace", <<>>),
                        Tok("ReturnKeyword", <<>>),
                        Tok("Constant", <<"2">>),
                        Tok("Semicolon", <<>>),
                        Tok("CloseBrace", <<>>)>>

\* The finished scan of "int main(void){return 2;}".
C15_Witness ==
    /\ contents = MainScenario
    /\ pc = "done"
    /\ Len(output) = 10

\* ------------------------------------------------------------------------
\* C17: when the input ends inside a block comment, no error is raised: the
\* scan ends successfully and prints exactly the tokens recognised before
\* the opening of the comment.
C17_UnterminatedCommentSucceeds ==
    \A k \in 1..Len(starts) :
        LET p == starts[k] IN
        (OpensBlockComment(p) /\ Closers(p) = {}) =>
            /\ k = Len(starts)
            /\ result \in {Running, Ok}
            /\ \A j \in 1..Len(spans) : spans[j][2] <= p
            /\ pc \in {"block", "main", "done"}
            /\ pc \in {"main", "done"} => pos = Len(contents)
            /\ pc = "done" => result = Ok /\ output = tokens

\* A finished scan whose input ends inside a block comment with a body,
\* after a token.
C17_Witness ==
    /\ pc = "done"
    /\ result = Ok
    /\ output # <<>>
    /\ OpensBlockComment(Last(starts))
    /\ Closers(Last(starts)) = {}
    /\ Last(starts) + 2 < Len(contents)

\* ------------------------------------------------------------------------
\* C19: when the identifier loop is left the captured text is not empty, so
\* the unwrap of its first character cannot panic, and that character is not
\* numeric and every character passes the test of the loop: no input makes
\* the scan fail with "Identifiers cannot start with a number" or with
\* "Invalid identifier" from the identifier branch.
C19_IdentifierGuardsUnreachable ==
    /\ result.kind \notin {"Panic", "IdentStartsWithNumber", "InvalidIdentifier"}
    /\ (pc = "ident" /\ ~(HasNext /\ IsIdentifierPart(Peek))) =>
          /\ ident # <<>>
          /\ ~is_numeric(ident[1])
          /\ \A i \in 1..Len(ident) : is_alphanumeric(ident[i]) \/ ident[i] = "_"

\* The identifier loop is left with a text of several characters, a numeric
\* one among them.
C19_Witness ==
    /\ pc = "ident"
    /\ ~(HasNext /\ IsIdentifierPart(Peek))
    /\ \E i \in 2..Len(ident) : is_numeric(ident[i])

\* ------------------------------------------------------------------------
\* What a finished scan hands back: the result and the printed tokens.
Outcome == [result |-> result, output |-> output]

\* A line comment opens at the token-start position p.
OpensLineComment(p) ==
    /\ p + 2 <= Len(contents)
    /\ contents[p + 1] = "/"
    /\ contents[p + 2] = "/"

\* The input without the text of the line comment opened at p: the
\* characters from the "//" up to, not including, the next newline.
WithoutLineComment(p) ==
    LET ends == {n \in (p + 1)..Len(contents) : contents[n] = "\n"}
        n == IF ends = {} THEN Len(contents) + 1 ELSE Least(ends)
    IN  SubSeq(contents, 1, p) \o SubSeq(contents, n, Len(contents))

LineScenario ==
    <<"i", "n", "t", " ", "x", ";", " ", "/", "/", " ", "i", "g", "n",
      "o", "r", "e", " ", "t", "h", "i", "s", "\n", "r", "e", "t",
      "u", "r", "n", " ", "x", ";">>

\* C12: a line comment produces no token and takes exactly the characters
\* from its "//" up to, not including, the next newline or the end of the
\* input: the result of the scan (tokens or error) is the result of scanning
\* the input with that text removed.
C12_LineCommentRemovable ==
    /\ \A k \in 1..Len(starts) :
          OpensLineComment(starts[k]) =>
              /\ \A i \in (starts[k] + 1)..pos :
                    (\A m \in (starts[k] + 1)..i : contents[m] # "\n")
                    => consumed[i] = "linecomment" /\ TokensOver(i) = {}
              /\ pc = "done" => Outcome = Scan(WithoutLineComment(starts[k]))
    /\ pc = "done" => Outcome = Scan(contents)

\* The finished scan of "int x; // ignore this\nreturn x;".
C12_Witness ==
    /\ contents = LineScenario
    /\ pc = "done"
    /\ Len(output) = 6

\* ------------------------------------------------------------------------
\* The minimal source form of a token.
Render(tok) ==
    CASE tok.kind \in {"Identifier", "Constant"} -> tok.text
      [] tok.kind = "IntKeyword" -> <<"i", "n", "t">>
      [] tok.kind = "VoidKeyword" -> <<"v", "o", "i", "d">>
      [] tok.kind = "ReturnKeyword" -> <<"r", "e", "t", "u", "r", "n">>
      [] tok.kind = "OpenParenthesis" -> <<"(">>
      [] tok.kind = "CloseParenthesis" -> <<")">>
      [] tok.kind = "OpenBrace" -> <<"{">>
      [] tok.kind = "CloseBrace" -> <<"}">>
      [] tok.kind = "Semicolon" -> <<";">>

\* The renderings of the tokens, joined with single spaces.
RECURSIVE Joined(_)
Joined(toks) ==
    IF toks = <<>> THEN <<>>
    ELSE IF Len(toks) = 1 THEN Render(toks[1])
    ELSE Render(toks[1]) \o <<" ">> \o Joined(Tail(toks))

\* C14: when a scan succeeds, scanning the renderings of its tokens joined
\* with single spaces succeeds too and yields the same token sequence.
C14_RoundTrip ==
    (pc = "done" /\ result = Ok) =>
        Scan(Joined(output)) = [result |-> Ok, output |-> output]

\* A finished scan whose tokens were not separated by single spaces in the
\* input: the rendering differs from the input.
C14_Witness ==
    /\ pc = "done"
    /\ result = Ok
    /\ Len(output) >= 6
    /\ Joined(output) # contents

\* ------------------------------------------------------------------------
\* The run failed: a non-zero status, and the last line on the error stream
\* is a diagnostic of one of the kinds.
FailedWith(kinds) ==
    /\ exit_code # <<>>
    /\ exit_code # <<0>>
    /\ stderr # <<>>
    /\ Last(stderr).kind \in kinds

Succeeded == exit_code = <<0>>

FileErrorKinds == {"CouldNotOpenFile", "CouldNotReadFile"}

\* C16: when the process has exited: an unknown option, a missing path, a
\* path not ending in ".c", a file that cannot be opened or read under
\* --lex, a scanner error under --lex and a failed file creation under -s
\* each left a diagnostic on the error stream and a non-zero status; a
\* successful --lex, a successful -s, and --parse and --codegen (after their
\* status line) left status zero.
C16_ExitStatus ==
    mpc = "exited" =>
        /\ Len(args) < 2 => FailedWith({"Usage"})
        /\ Len(args) >= 2 =>
            /\ (HasOption /\ option \notin KnownOptions) =>
                   FailedWith({"UnknownOption", "MissingPath", "BadExtension"})
            /\ path_index >= Len(args) => FailedWith({"MissingPath"})
            /\ (path_index < Len(args) /\ ~ends_with(path, Extension)) =>
                   FailedWith({"BadExtension"})
            /\ (PathGiven /\ HasOption /\ option = LexOption) =>
                /\ result # Running
                /\ stdout = <<Line("PerformingLexicalAnalysis", path)>>
                /\ result.kind \in FileErrorKinds \cup ErrorKinds =>
                       FailedWith({result.kind}) /\ Last(stderr) = result
                /\ result = Ok => Succeeded /\ pc = "done"
            /\ (PathGiven /\ HasOption /\ option = AssembleOption) =>
                /\ created = {} => FailedWith({"FailedToCreate"})
                /\ created # {} => Succeeded
            /\ (PathGiven /\ HasOption /\ option = ParseOption) =>
                /\ Succeeded
                /\ stdout = <<Line("PerformingParsing", path)>>
            /\ (PathGiven /\ HasOption /\ option = CodegenOption) =>
                /\ Succeeded
                /\ stdout = <<Line("PerformingCodeGeneration", path)>>

\* A --lex run that exited after the scanner reported an error having
\* found an identifier before it.
C16_Witness ==
    /\ mpc = "exited"
    /\ Len(args) = 3
    /\ option = LexOption
    /\ result.kind \in ErrorKinds
    /\ Len(stderr) >= 2
    /\ exit_code = <<1>>

\* ------------------------------------------------------------------------
\* C18: under -s the created file is named as the input path with exactly
\* its final ".c" replaced by ".s"; what stands before the final extension is
\* kept, also when it ends in ".c" ("a.c.c" gives "a.c.s").
C18_OutputName ==
    (mpc = "exited" /\ created # {}) =>
        created = {SubSeq(path, 1, Len(path) - Len(Extension))
                       \o AssemblyExtension}

\* ------------------------------------------------------------------------
\* The command line is one word, a path ending in ".c" and no option.
PathOnly ==
    /\ Len(args) = 2
    /\ ~starts_with(Arg(1), "-")
    /\ ends_with(Arg(1), Extension)

\* C20: a run with a single argument that does not start with "-" and ends
\* in ".c" invokes no stage: in every state of the run the file was not
\* opened, no token and no status line was output, no file was created, and
\* when the process has ended its status is zero.
C20_PathOnlyDoesNothing ==
    PathOnly =>
        /\ opened = {}
        /\ created = {}
        /\ stdout = <<>>
        /\ output = <<>>
        /\ tokens = <<>>
        /\ pc = "idle"
        /\ mpc \in {"start", "exited"}
        /\ mpc = "exited" => Succeeded

\* The run of "a.c" alone has ended.
C20_Witness ==
    /\ args = <<ProgramName, <<"a">> \o Extension>>
    /\ mpc = "exited"
====
